---- MODULE Spec2Model ----
(***************************************************************************)
(* Model of code_quality.py: the unified-diff parser parse_diff, and the   *)
(* driver main with the tool invokers run_formatter and run_flake8.        *)
(*                                                                         *)
(* Text is modelled as sequences of one-character strings, so that the     *)
(* two regular expressions, pathlib.Path and the f-string of the --lines   *)
(* argument are computed character by character as the code computes them. *)
(***************************************************************************)
EXTENDS Integers, Sequences, FiniteSets, TLC

\* ---------------------------------------------------------------- bounds
\* longest diff (in lines) that SpecParse scans
MaxLines == 3
\* longest diff (in lines) of header and hunk lines only: the diffs that
\* SpecParseHunks scans and that are behind the FileChangeSet of SpecMain
MaxRunLines == 4
\* largest value of --prefix that is drawn
MaxStrip == 2

\* ------------------------------------------------------------ characters
\* Python's None; no text is equal to it (texts hold one-character strings)
None == <<"None">>

Digits == {"0", "1", "2", "3", "4", "5", "6", "7", "8", "9"}

DigitVal(c) ==
    CASE c = "0" -> 0 [] c = "1" -> 1 [] c = "2" -> 2 [] c = "3" -> 3
      [] c = "4" -> 4 [] c = "5" -> 5 [] c = "6" -> 6 [] c = "7" -> 7
      [] c = "8" -> 8 [] c = "9" -> 9

DigitChar(d) ==
    CASE d = 0 -> "0" [] d = 1 -> "1" [] d = 2 -> "2" [] d = 3 -> "3"
      [] d = 4 -> "4" [] d = 5 -> "5" [] d = 6 -> "6" [] d = 7 -> "7"
      [] d = 8 -> "8" [] d = 9 -> "9"

\* the characters \S does not match
IsSpace(c) == c \in {" ", "\t"}

\* s[p..] for 1 <= p <= Len(s) + 1
Drop(s, p) == SubSeq(s, p, Len(s))

\* does s start with the text pre
StartsWith(s, pre) == Len(s) >= Len(pre) /\ SubSeq(s, 1, Len(pre)) = pre

\* int(s) for a non-empty text of digits
RECURSIVE IntOf(_)
IntOf(s) ==
    IF s = <<>> THEN 0
    ELSE 10 * IntOf(SubSeq(s, 1, Len(s) - 1)) + DigitVal(s[Len(s)])

\* str(n) for n >= 0, as the f-string formats l.start and l.stop
RECURSIVE StrOfInt(_)
StrOfInt(n) ==
    IF n < 10 THEN <<DigitChar(n)>>
    ELSE StrOfInt(n \div 10) \o <<DigitChar(n % 10)>>

\* end of the longest run of digits that starts at p (p - 1 when there is none)
RECURSIVE DigitRunEnd(_, _)
DigitRunEnd(s, p) ==
    IF p <= Len(s) /\ s[p] \in Digits THEN DigitRunEnd(s, p + 1) ELSE p - 1

\* end of the longest run of non-whitespace that starts at p
RECURSIVE NonSpaceRunEnd(_, _)
NonSpaceRunEnd(s, p) ==
    IF p <= Len(s) /\ ~IsSpace(s[p]) THEN NonSpaceRunEnd(s, p + 1) ELSE p - 1

\* ------------------------------------------------------- filename_regex
\* (.*?/){k} from position p: each repetition is lazy, so it ends at the
\* nearest "/"; the position after the k-th one, 0 when there are too few
RECURSIVE SkipSegments(_, _, _)
SkipSegments(s, p, k) ==
    IF k = 0 THEN p
    ELSE IF p > Len(s) THEN 0
    ELSE IF s[p] = "/" THEN SkipSegments(s, p + 1, k - 1)
    ELSE SkipSegments(s, p + 1, k)

\* --------------------------------------------------------- lineno_regex
\* .*?\+(\d+) from position p: the first "+" that a digit follows, 0 if none
RECURSIVE FirstPlusDigit(_, _)
FirstPlusDigit(s, p) ==
    IF p >= Len(s) THEN 0
    ELSE IF s[p] = "+" /\ s[p + 1] \in Digits THEN p
    ELSE FirstPlusDigit(s, p + 1)

\* a match object that is None
NoMatch == [matched |-> FALSE, g1 |-> None, g3 |-> None]

\* lineno_regex.match(line): the groups 1 and 3 (3 is None when it took no part)
LinenoMatch(line) ==
    IF ~StartsWith(line, <<"@", "@">>) THEN NoMatch
    ELSE LET p == FirstPlusDigit(line, 3)
         IN  IF p = 0 THEN NoMatch
             ELSE LET e1 == DigitRunEnd(line, p + 1)
                      e3 == DigitRunEnd(line, e1 + 2)
                      has3 == /\ e1 + 1 <= Len(line)
                              /\ line[e1 + 1] = ","
                              /\ e3 >= e1 + 2
                  IN  [matched |-> TRUE,
                       g1 |-> SubSeq(line, p + 1, e1),
                       g3 |-> IF has3 THEN SubSeq(line, e1 + 2, e3) ELSE None]

\* --------------------------------------------------------- pathlib.Path
\* text.split("/")
RECURSIVE SplitSlash(_, _)
SplitSlash(s, acc) ==
    IF s = <<>> THEN <<acc>>
    ELSE IF Head(s) = "/" THEN <<acc>> \o SplitSlash(Tail(s), <<>>)
    ELSE SplitSlash(Tail(s), Append(acc, Head(s)))

\* "/".join(parts)
RECURSIVE JoinSlash(_)
JoinSlash(parts) ==
    IF parts = <<>> THEN <<>>
    ELSE IF Len(parts) = 1 THEN parts[1]
    ELSE parts[1] \o <<"/">> \o JoinSlash(Tail(parts))

\* number of "/" the text starts with
RECURSIVE LeadingSlashes(_)
LeadingSlashes(s) ==
    IF s # <<>> /\ Head(s) = "/" THEN 1 + LeadingSlashes(Tail(s)) ELSE 0

\* the components Path keeps: neither empty nor "."
KeptParts(parts) == SelectSeq(parts, LAMBDA c : c # <<>> /\ c # <<".">>)

\* str(Path(text)) on POSIX: Path objects are equal iff these texts are
PathOf(text) ==
    LET k     == LeadingSlashes(text)
        root  == IF k = 0 THEN <<>> ELSE IF k = 2 THEN <<"/", "/">> ELSE <<"/">>
        parts == KeptParts(SplitSlash(text, <<>>))
    IN  IF root = <<>> /\ parts = <<>> THEN <<".">>
        ELSE root \o JoinSlash(parts)

\* Path.name of a path in its str form
NameOf(path) ==
    LET parts == KeptParts(SplitSlash(path, <<>>))
    IN  IF parts = <<>> \/ path = <<".">> THEN <<>> ELSE parts[Len(parts)]

\* name.rfind("."), 1-based; 0 when there is no "."
RECURSIVE RFindDot(_)
RFindDot(name) ==
    IF name = <<>> THEN 0
    ELSE IF name[Len(name)] = "." THEN Len(name)
    ELSE RFindDot(SubSeq(name, 1, Len(name) - 1))

\* Path.suffix
Suffix(path) ==
    LET name == NameOf(path)
        i    == RFindDot(name)
    IN  IF 1 < i /\ i < Len(name) THEN Drop(name, i) ELSE <<>>

\* variant: separators that lead group 2 are dropped
FilenameMatch_lstrip(line, n_path_strip) ==
    IF ~StartsWith(line, <<"+", "+", "+", " ">>) THEN None
    ELSE LET p == SkipSegments(line, 5, n_path_strip)
         IN  IF p = 0 THEN None
             ELSE LET g == SubSeq(line, p, NonSpaceRunEnd(line, p))
                  IN  Drop(g, 1 + LeadingSlashes(g))

\* filename_regex.match(line): group 2, or None when the line does not match
FilenameMatch(line, n_path_strip) ==
    IF ~StartsWith(line, <<"+", "+", "+", " ">>) THEN None
    ELSE LET p == SkipSegments(line, 5, n_path_strip)
         IN  IF p = 0 THEN None
             ELSE SubSeq(line, p, NonSpaceRunEnd(line, p))

\* ------------------------------------------------------------ diff text
\* what follows "+++ " in the new-file headers that are drawn
HeaderPaths ==
    { <<"b", "/", "x", ".", "p", "y">>,
      <<"b", "/", "y", ".", "c", "c">>,
      <<"b", "/", "/", "x", ".", "p", "y">>,
      <<"b", "/">>,
      <<"b", "/", "a", "/", "b", "/", "f", "i", "l", "e", ".", "p", "y">> }

\* new-side start and count of the hunks that are drawn; omit: no ",<count>"
HunkShapes ==
    { [start |-> 10, count |-> 3, omit |-> FALSE],
      [start |-> 5,  count |-> 1, omit |-> TRUE],
      [start |-> 7,  count |-> 0, omit |-> FALSE] }

\* text of added and removed content lines (after the "+" or "-" marker)
ContentTexts ==
    { <<"+", "+", " ", "c", "/", "w", ".", "p", "y">>,
      <<"@", "@", " ", "+", "1", " ", "@", "@">> }

\* "+++ <path>", as git diff writes the new-file header
HeaderLine(path) ==
    [kind |-> "header", text |-> <<"+", "+", "+", " ">> \o path,
     path |-> path, start |-> 0, count |-> 0]

\* "@@ -1,2 +<start>[,<count>] @@", as git diff writes a hunk header
HunkLine(h) ==
    [kind |-> "hunk",
     text |-> <<"@", "@", " ", "-", "1", ",", "2", " ", "+">> \o StrOfInt(h.start)
              \o (IF h.omit THEN <<>> ELSE <<",">> \o StrOfInt(h.count))
              \o <<" ", "@", "@">>,
     path |-> <<>>, start |-> h.start, count |-> h.count]

\* an added ("+") or removed ("-") content line
ContentLine(kind, marker, content) ==
    [kind |-> kind, text |-> <<marker>> \o content,
     path |-> <<>>, start |-> 0, count |-> 0]

\* "--- a/x.py" and "index 1..2": old-file header and extended header lines
OtherLines ==
    { [kind |-> "oldheader",
       text |-> <<"-", "-", "-", " ", "a", "/", "x", ".", "p", "y">>,
       path |-> <<>>, start |-> 0, count |-> 0],
      [kind |-> "meta",
       text |-> <<"i", "n", "d", "e", "x", " ", "1", ".", ".", "2">>,
       path |-> <<>>, start |-> 0, count |-> 0] }

\* the lines of the output of git diff -U0 --no-color --relative
HeaderLines == { HeaderLine(p) : p \in HeaderPaths }
HunkLines == { HunkLine(h) : h \in HunkShapes }
DiffLines ==
    HeaderLines \cup HunkLines \cup OtherLines
    \cup { ContentLine("added", "+", c) : c \in ContentTexts }
    \cup { ContentLine("removed", "-", c) : c \in ContentTexts }

\* the sequences of at most n elements of S
SeqsUpTo(S, n) == UNION { [1..k -> S] : k \in 0..n }

\* the values --prefix takes
StripCounts == 0..MaxStrip

\* ----------------------------------------------------------- parse_diff
\* the dict lines, in insertion order: entries [fname, ranges]
HasKey(d, key) == \E k \in 1..Len(d) : d[k].fname = key

\* variant: a range the file already has is not recorded again
SetDefaultAppend_dedup(d, key, r) ==
    IF HasKey(d, key)
    THEN [k \in 1..Len(d) |->
            IF d[k].fname = key /\ \A q \in 1..Len(d[k].ranges) : d[k].ranges[q] # r
            THEN [d[k] EXCEPT !.ranges = Append(@, r)] ELSE d[k]]
    ELSE Append(d, [fname |-> key, ranges |-> <<r>>])

\* lines.setdefault(key, []).append(r)
SetDefaultAppend(d, key, r) ==
    IF HasKey(d, key)
    THEN [k \in 1..Len(d) |->
            IF d[k].fname = key
            THEN [d[k] EXCEPT !.ranges = Append(@, r)] ELSE d[k]]
    ELSE Append(d, [fname |-> key, ranges |-> <<r>>])

\* current_file after the filename_regex part of an iteration
NextCurrentFile(cur, text, n_path_strip) ==
    LET m == FilenameMatch(text, n_path_strip)
    IN  IF m # None THEN PathOf(m) ELSE cur

\* n_lines: int(match[3]) if match[3] else 1
NLines(g3) == IF g3 # None THEN IntOf(g3) ELSE 1

\* variant: an inclusive end line
EndLine_inclusive(start_line, n_lines) == start_line + n_lines - 1

\* end_line = start_line + n_lines
EndLine(start_line, n_lines) == start_line + n_lines

\* variant: the entry of the file is created before the count is looked at
ParseLine_eager(cur, d, text, n_path_strip) ==
    LET cur1 == NextCurrentFile(cur, text, n_path_strip)
        lm   == LinenoMatch(text)
    IN  IF cur1 = None THEN [current_file |-> cur1, lines |-> d]
        ELSE IF ~lm.matched THEN [current_file |-> cur1, lines |-> d]
        ELSE LET start_line == IntOf(lm.g1)
                 n_lines    == NLines(lm.g3)
                 d1 == IF HasKey(d, cur1) THEN d
                       ELSE Append(d, [fname |-> cur1, ranges |-> <<>>])
             IN  IF n_lines = 0 THEN [current_file |-> cur1, lines |-> d1]
                 ELSE [current_file |-> cur1,
                       lines |-> SetDefaultAppend(d1, cur1,
                                   <<start_line, EndLine(start_line, n_lines)>>)]

\* variant: a count of 0 is not skipped
ParseLine_nozero(cur, d, text, n_path_strip) ==
    LET cur1 == NextCurrentFile(cur, text, n_path_strip)
        lm   == LinenoMatch(text)
    IN  IF cur1 = None THEN [current_file |-> cur1, lines |-> d]
        ELSE IF ~lm.matched THEN [current_file |-> cur1, lines |-> d]
        ELSE LET start_line == IntOf(lm.g1)
                 n_lines    == NLines(lm.g3)
             IN  [current_file |-> cur1,
                  lines |-> SetDefaultAppend(d, cur1,
                              <<start_line, EndLine(start_line, n_lines)>>)]

\* variant: hunks are recorded while current_file is None as well
ParseLine_nonone(cur, d, text, n_path_strip) ==
    LET cur1 == NextCurrentFile(cur, text, n_path_strip)
        lm   == LinenoMatch(text)
    IN  IF ~lm.matched THEN [current_file |-> cur1, lines |-> d]
        ELSE LET start_line == IntOf(lm.g1)
                 n_lines    == NLines(lm.g3)
             IN  IF n_lines = 0 THEN [current_file |-> cur1, lines |-> d]
                 ELSE [current_file |-> cur1,
                       lines |-> SetDefaultAppend(d, cur1,
                                   <<start_line, EndLine(start_line, n_lines)>>)]

\* one iteration of the loop over diff.splitlines()
ParseLine(cur, d, text, n_path_strip) ==
    LET cur1 == NextCurrentFile(cur, text, n_path_strip)
        lm   == LinenoMatch(text)
    IN  IF cur1 = None THEN [current_file |-> cur1, lines |-> d]
        ELSE IF ~lm.matched THEN [current_file |-> cur1, lines |-> d]
        ELSE LET start_line == IntOf(lm.g1)
                 n_lines    == NLines(lm.g3)
             IN  IF n_lines = 0 THEN [current_file |-> cur1, lines |-> d]
                 ELSE [current_file |-> cur1,
                       lines |-> SetDefaultAppend(d, cur1,
                                   <<start_line, EndLine(start_line, n_lines)>>)]

\* parse_diff(diff, n_path_strip), the loop run from state st over texts
RECURSIVE ParseFrom(_, _, _)
ParseFrom(st, texts, n_path_strip) ==
    IF texts = <<>> THEN st.lines
    ELSE ParseFrom(ParseLine(st.current_file, st.lines, Head(texts), n_path_strip),
                   Tail(texts), n_path_strip)

parse_diff(d, n_path_strip) ==
    ParseFrom([current_file |-> None, lines |-> <<>>],
              [k \in 1..Len(d) |-> d[k].text], n_path_strip)

\* ------------------------------------------------------------ constants
\* CPP_EXTENSIONS
CPP_EXTENSIONS ==
    { <<".", "c", "p", "p">>, <<".", "c", "c">>, <<".", "c", "x", "x">>,
      <<".", "h", "p", "p">>, <<".", "h", "h">>, <<".", "h", "x", "x">>,
      <<".", "h">> }

\* PY_EXTENSIONS
PY_EXTENSIONS == { <<".", "p", "y">> }

\* the const= values of --yapf, --flake8 and --clang-format
Yapf == <<"yapf">>
Flake8 == <<"flake8">>
ClangFormat == <<"clang-format">>

\* exit statuses an external checker returns: 0..MaxRetCode
MaxRetCode == 2
RetCodes == 0..MaxRetCode

\* ---------------------------------------------------------------- state
VARIABLES
    diff,           \* parse_diff: the lines of its argument diff
    n_path_strip,   \* parse_diff: its argument n_path_strip
    i,              \* parse_diff: index of the line the loop is at
    current_file,   \* parse_diff: current_file
    lines,          \* parse_diff: the dict lines
    ppc,            \* parse_diff: "idle", "loop" or "done" (returned lines)
    pc,             \* main: the statement it is at
    args,           \* main: the namespace parse_args returned
    warned,         \* parse_args printed 'WARNING no checkers are enabled.'
    modified_lines, \* main: modified_lines
    idx,            \* run_formatter, run_flake8: next item of modified_lines
    calls,          \* the subprocesses started for checkers, in order
    exit_code       \* exit status of the process once pc = "exit"

vars == <<diff, n_path_strip, i, current_file, lines, ppc,
          pc, args, warned, modified_lines, idx, calls, exit_code>>

parseVars == <<diff, n_path_strip, i, current_file, lines, ppc>>
mainVars == <<pc, args, warned, modified_lines, idx, calls, exit_code>>

NoArgs ==
    [py |-> FALSE, cpp |-> FALSE, yapf |-> None, flake8 |-> None,
     clang_format |-> None, prefix |-> 0]

\* main has not been entered
MainIdle ==
    /\ pc = "idle" /\ args = NoArgs /\ warned = FALSE
    /\ modified_lines = <<>> /\ idx = 1 /\ calls = <<>> /\ exit_code = 0

\* parse_diff has not been entered
ParseIdle ==
    /\ diff = <<>> /\ n_path_strip = 0 /\ i = 1
    /\ current_file = None /\ lines = <<>> /\ ppc = "idle"

\* ------------------------------------------- parse_diff as a state machine
\* the entry of parse_diff on a diff of at most MaxLines lines
InitParse ==
    /\ diff \in SeqsUpTo(DiffLines, MaxLines)
    /\ n_path_strip \in StripCounts
    /\ i = 1
    /\ current_file = None
    /\ lines = <<>>
    /\ ppc = "loop"
    /\ MainIdle

\* one iteration of: for line in diff.splitlines()
ParseLoopStep ==
    /\ ppc = "loop"
    /\ i <= Len(diff)
    /\ LET st == ParseLine(current_file, lines, diff[i].text, n_path_strip)
       IN  /\ current_file' = st.current_file
           /\ lines' = st.lines
    /\ i' = i + 1
    /\ UNCHANGED <<diff, n_path_strip, ppc>>
    /\ UNCHANGED mainVars

\* return lines
ParseReturn ==
    /\ ppc = "loop"
    /\ i > Len(diff)
    /\ ppc' = "done"
    /\ UNCHANGED <<diff, n_path_strip, i, current_file, lines>>
    /\ UNCHANGED mainVars

NextParse == ParseLoopStep \/ ParseReturn

SpecParse == InitParse /\ [][NextParse]_vars

\* ------------------------------------------------------------------ main
\* header and hunk lines only: what the FileChangeSet depends on
RunDiffLines == HeaderLines \cup HunkLines

\* the values of (current_file, lines) the loop of parse_diff can leave after
\* at most k lines of RunDiffLines
RECURSIVE ParseStates(_, _)
ParseStates(n, k) ==
    IF k = 0 THEN { [current_file |-> None, lines |-> <<>>] }
    ELSE LET prev == ParseStates(n, k - 1)
         IN  prev \cup { ParseLine(st.current_file, st.lines, l.text, n) :
                           st \in prev, l \in RunDiffLines }

\* the FileChangeSets parse_diff returns on diffs of at most MaxRunLines
\* lines, { parse_diff(d, n) : d \in SeqsUpTo(RunDiffLines, MaxRunLines) },
\* computed over the states of the loop instead of diff by diff
ChangeSets ==
    [n \in StripCounts |-> { st.lines : st \in ParseStates(n, MaxRunLines) }]

\* the entry of parse_diff on a diff of at most MaxRunLines header and hunk
\* lines: long enough for a path that two file headers introduce
InitParseHunks ==
    /\ diff \in SeqsUpTo(RunDiffLines, MaxRunLines)
    /\ n_path_strip \in StripCounts
    /\ i = 1
    /\ current_file = None
    /\ lines = <<>>
    /\ ppc = "loop"
    /\ MainIdle

SpecParseHunks == InitParseHunks /\ [][NextParse]_vars

InitMain ==
    /\ pc = "parse_args"
    /\ args = NoArgs
    /\ warned = FALSE
    /\ modified_lines = <<>>
    /\ idx = 1
    /\ calls = <<>>
    /\ exit_code = 0
    /\ ParseIdle

\* variant: the status of the failed child becomes the exit status
UncaughtExit_propagate(returncode) == returncode

\* exit status of the interpreter when an exception reaches the top level
UncaughtExit(returncode) == 1

\* parse_args()
ParseArgs ==
    /\ pc = "parse_args"
    /\ \E py \in BOOLEAN, cpp \in BOOLEAN,
          y \in {None, Yapf}, f \in {None, Flake8}, c \in {None, ClangFormat},
          p \in StripCounts :
          /\ warned' = ~(py \/ y # None \/ f # None \/ cpp)
          /\ args' = [py |-> py, cpp |-> cpp,
                      yapf |-> IF py /\ y = None THEN Yapf ELSE y,
                      flake8 |-> IF py /\ f = None THEN Flake8 ELSE f,
                      clang_format |-> IF cpp /\ c = None THEN ClangFormat ELSE c,
                      prefix |-> p]
    /\ pc' = "find_repo_root"
    /\ UNCHANGED <<modified_lines, idx, calls, exit_code>>
    /\ UNCHANGED parseVars

\* find_repo_root(): git rev-parse succeeds
FindRepoRoot ==
    /\ pc = "find_repo_root"
    /\ pc' = "get_diff"
    /\ UNCHANGED <<args, warned, modified_lines, idx, calls, exit_code>>
    /\ UNCHANGED parseVars

\* find_repo_root(): git rev-parse fails, sys.exit(1)
FindRepoRootFail ==
    /\ pc = "find_repo_root"
    /\ pc' = "exit"
    /\ exit_code' = 1
    /\ UNCHANGED <<args, warned, modified_lines, idx, calls>>
    /\ UNCHANGED parseVars

\* get_diff(): a git call fails, CalledProcessError reaches the top level
GetDiffFail ==
    /\ pc = "get_diff"
    /\ pc' = "exit"
    /\ exit_code' = UncaughtExit(1)
    /\ UNCHANGED <<args, warned, modified_lines, idx, calls>>
    /\ UNCHANGED parseVars

\* diff = get_diff(...); modified_lines = parse_diff(diff, args.prefix)
GetDiffParse ==
    /\ pc = "get_diff"
    /\ modified_lines' \in ChangeSets[args.prefix]
    /\ pc' = "clang_format"
    /\ idx' = 1
    /\ UNCHANGED <<args, warned, calls, exit_code>>
    /\ UNCHANGED parseVars

\* variant: no filter on the suffix
NextQualifying_any(ml, k, extensions) ==
    IF k > Len(ml) THEN 0 ELSE k

\* position of the first item from k on that the filter lets through, 0 if none
RECURSIVE NextQualifying(_, _, _)
NextQualifying(ml, k, extensions) ==
    IF k > Len(ml) THEN 0
    ELSE IF Suffix(ml[k].fname) \in extensions THEN k
    ELSE NextQualifying(ml, k + 1, extensions)

\* f'--lines={l.start}{line_separator}{l.stop}'
LinesArg(l, line_separator) ==
    <<"-", "-", "l", "i", "n", "e", "s", "=">> \o StrOfInt(l[1])
    \o <<line_separator>> \o StrOfInt(l[2])

\* variant: only the first range of the file is passed
FormatterArgv_first(cmd, item, line_separator) ==
    <<cmd, item.fname, <<"-", "i">>, LinesArg(item.ranges[1], line_separator)>>

\* [cmd, str(fname), '-i', *[... for l in lines]]
FormatterArgv(cmd, item, line_separator) ==
    <<cmd, item.fname, <<"-", "i">>>>
    \o [k \in 1..Len(item.ranges) |-> LinesArg(item.ranges[k], line_separator)]

\* [cmd, str(fname)]
Flake8Argv(cmd, item) == <<cmd, item.fname>>

\* variant: the status of the formatter is not checked
CheckCallRaises_never(returncode) == FALSE

\* subprocess.check_call raises CalledProcessError on a non-zero status
CheckCallRaises(returncode) == returncode # 0

\* variant: the status of the linter is checked
RunRaises_checked(returncode) == returncode # 0

\* subprocess.run without check=True never raises on the status
RunRaises(returncode) == FALSE

\* one iteration of the loop of run_formatter: subprocess.check_call
RunFormatterCall(stage, cmd, extensions, line_separator) ==
    /\ pc = stage
    /\ cmd # None
    /\ LET k == NextQualifying(modified_lines, idx, extensions)
       IN  /\ k # 0
           /\ \E rc \in RetCodes :
                /\ calls' = Append(calls,
                       [stage |-> stage,
                        argv |-> FormatterArgv(cmd, modified_lines[k], line_separator),
                        item |-> k, rc |-> rc])
                /\ IF CheckCallRaises(rc)
                   THEN /\ pc' = "exit"
                        /\ exit_code' = UncaughtExit(rc)
                        /\ idx' = idx
                   ELSE /\ pc' = pc
                        /\ exit_code' = exit_code
                        /\ idx' = k + 1
    /\ UNCHANGED <<args, warned, modified_lines>>
    /\ UNCHANGED parseVars

\* the checker is not enabled, or its loop is over: on to the next statement
StageReturn(stage, cmd, extensions, next) ==
    /\ pc = stage
    /\ cmd = None \/ NextQualifying(modified_lines, idx, extensions) = 0
    /\ pc' = next
    /\ idx' = 1
    /\ exit_code' = exit_code
    /\ UNCHANGED <<args, warned, modified_lines, calls>>
    /\ UNCHANGED parseVars

\* if args.clang_format: run_formatter(args.clang_format, ..., CPP_EXTENSIONS, ':')
ClangFormatCall == RunFormatterCall("clang_format", args.clang_format, CPP_EXTENSIONS, ":")
ClangFormatReturn == StageReturn("clang_format", args.clang_format, CPP_EXTENSIONS, "yapf")

\* if args.yapf: run_formatter(args.yapf, modified_lines, PY_EXTENSIONS, '-')
YapfCall == RunFormatterCall("yapf", args.yapf, PY_EXTENSIONS, "-")
YapfReturn == StageReturn("yapf", args.yapf, PY_EXTENSIONS, "flake8")

\* one iteration of the loop of run_flake8: subprocess.run
Flake8Call ==
    /\ pc = "flake8"
    /\ args.flake8 # None
    /\ LET k == NextQualifying(modified_lines, idx, PY_EXTENSIONS)
       IN  /\ k # 0
           /\ \E rc \in RetCodes :
                /\ calls' = Append(calls,
                       [stage |-> "flake8",
                        argv |-> Flake8Argv(args.flake8, modified_lines[k]),
                        item |-> k, rc |-> rc])
                /\ IF RunRaises(rc)
                   THEN /\ pc' = "exit"
                        /\ exit_code' = UncaughtExit(rc)
                        /\ idx' = idx
                   ELSE /\ pc' = pc
                        /\ exit_code' = exit_code
                        /\ idx' = k + 1
    /\ UNCHANGED <<args, warned, modified_lines>>
    /\ UNCHANGED parseVars

\* if args.flake8: run_flake8(...) is over and main returns: exit status 0
Flake8Return == StageReturn("flake8", args.flake8, PY_EXTENSIONS, "exit")

NextMain ==
    \/ ParseArgs
    \/ FindRepoRoot
    \/ FindRepoRootFail
    \/ GetDiffFail
    \/ GetDiffParse
    \/ ClangFormatCall
    \/ ClangFormatReturn
    \/ YapfCall
    \/ YapfReturn
    \/ Flake8Call
    \/ Flake8Return

SpecMain == InitMain /\ [][NextMain]_vars

\* =============================================================== claims
\* ------------------------------------------- what the diff lines stand for
\* number of "/" in a text
RECURSIVE CountSlashes(_)
CountSlashes(s) ==
    IF s = <<>> THEN 0
    ELSE (IF Head(s) = "/" THEN 1 ELSE 0) + CountSlashes(Tail(s))

\* a header path after the removal of its first k segments (each ends in a
\* separator); None when it has fewer than k segments
RECURSIVE StripLeadingSegments(_, _)
StripLeadingSegments(path, k) ==
    IF k = 0 THEN path
    ELSE IF CountSlashes(path) = 0 THEN None
    ELSE IF Head(path) = "/" THEN StripLeadingSegments(Tail(path), k - 1)
    ELSE StripLeadingSegments(Tail(path), k)

\* a text without the separators it starts with
RECURSIVE StripLeadingSeparators(_)
StripLeadingSeparators(s) ==
    IF s # <<>> /\ Head(s) = "/" THEN StripLeadingSeparators(Tail(s)) ELSE s

\* index of the last line before line k whose text starts with "+++ ", 0 if none
RECURSIVE LastPlusLine(_, _)
LastPlusLine(d, k) ==
    IF k <= 1 THEN 0
    ELSE IF StartsWith(d[k - 1].text, <<"+", "+", "+", " ">>) THEN k - 1
    ELSE LastPlusLine(d, k - 1)

\* the ranges recorded for a path, empty when the path is not a key
RangesOf(d, key) ==
    IF HasKey(d, key)
    THEN d[CHOOSE k \in 1..Len(d) : d[k].fname = key].ranges
    ELSE <<>>

\* the keys of a mapping
KeysOf(d) == { d[k].fname : k \in 1..Len(d) }

\* the loop of parse_diff is about to process line i
AtLine == ppc = "loop" /\ i <= Len(diff)

\* d2 is d with the one range r appended to the ranges of key
RecordsExactly(d, d2, key, r) ==
    /\ KeysOf(d2) = KeysOf(d) \cup {key}
    /\ RangesOf(d2, key) = Append(RangesOf(d, key), r)
    /\ \A other \in KeysOf(d) \ {key} : RangesOf(d2, other) = RangesOf(d, other)

\* ----------------------------------------------------------------- C1
\* C1: whenever parse_diff records a range for a hunk line, the range goes
\* under the path of the last "+++ " line before that hunk line (so that
\* line yields a path), never under the path of an earlier file.
C1_AttributedToLastHeader ==
    [][ (AtLine /\ lines' # lines) =>
          LET j == LastPlusLine(diff, i)
          IN  /\ j # 0
              /\ FilenameMatch(diff[j].text, n_path_strip) # None
              /\ \E r \in (1..20) \X (1..20) :
                    RecordsExactly(lines, lines',
                        PathOf(FilenameMatch(diff[j].text, n_path_strip)), r)
      ]_vars

\* ----------------------------------------------------------------- C3
\* C3: a hunk line that follows a new-file header with fewer leading path
\* segments than strip_count adds nothing to the mapping, whatever files
\* came before.
C3_TooFewSegmentsExcluded ==
    [][ ( /\ AtLine
          /\ diff[i].kind = "hunk"
          /\ LET j == LastPlusLine(diff, i)
             IN  /\ j # 0
                 /\ diff[j].kind = "header"
                 /\ CountSlashes(diff[j].path) < n_path_strip )
        => lines' = lines
      ]_vars

\* ----------------------------------------------------------------- C4
\* C4: a new-file header whose path is empty after the strip leaves an unset
\* cursor unset, hunk lines that follow it add nothing to the mapping, and
\* the mapping never has an entry for the path "." or the empty path.
C4_EmptyPathLeavesCursorUnset ==
    [][ /\ ( /\ AtLine
             /\ diff[i].kind = "header"
             /\ StripLeadingSegments(diff[i].path, n_path_strip) = <<>>
             /\ current_file = None )
           => current_file' = None
        /\ ( /\ AtLine
             /\ diff[i].kind = "hunk"
             /\ LET j == LastPlusLine(diff, i)
                IN  /\ j # 0
                    /\ diff[j].kind = "header"
                    /\ StripLeadingSegments(diff[j].path, n_path_strip) = <<>> )
           => /\ lines' = lines
              /\ KeysOf(lines') \cap {<<".">>, <<>>} = {}
      ]_vars

\* ----------------------------------------------------------------- C8
\* C8: a hunk header "+<start>[,<count>]" with count >= 1 (1 when omitted),
\* met while a current file is set, records exactly the range
\* [start, start + count) for that file and changes nothing else.
C8_HunkRecordsHalfOpenRange ==
    [][ ( /\ AtLine
          /\ diff[i].kind = "hunk"
          /\ diff[i].count >= 1
          /\ current_file # None )
        => /\ current_file' = current_file
           /\ RecordsExactly(lines, lines', current_file,
                  <<diff[i].start, diff[i].start + diff[i].count>>)
      ]_vars

\* the hunks +10,3 and +5 of one file were recorded as [10, 13) and [5, 6)
C8_Witness ==
    /\ i = 4
    /\ diff[2].kind = "hunk" /\ diff[2].start = 10 /\ diff[2].count = 3
    /\ diff[3].kind = "hunk" /\ diff[3].start = 5 /\ diff[3].count = 1
    /\ Len(lines) = 1
    /\ lines[1].ranges = << <<10, 13>>, <<5, 6>> >>

\* ----------------------------------------------------------------- C9
\* C9 as stated: the path recorded for a new-file header is the header path
\* without its first strip_count segments and without any separator that
\* then leads it, so it never starts with a separator.
C9_StripsFurtherSeparators ==
    [][ ( /\ AtLine
          /\ diff[i].kind = "header"
          /\ StripLeadingSegments(diff[i].path, n_path_strip) # None
          /\ StripLeadingSeparators(
                 StripLeadingSegments(diff[i].path, n_path_strip)) # <<>> )
        => /\ current_file' =
                PathOf(StripLeadingSeparators(
                    StripLeadingSegments(diff[i].path, n_path_strip)))
           /\ Head(current_file') # "/"
      ]_vars

\* C9 amended: the path recorded for a new-file header (without whitespace)
\* is the header path without exactly its first strip_count segments, read
\* as a pathlib.Path; separators that then lead it are kept.  With
\* strip_count = 1, "b/x.py" gives "x.py", "b/a/b/file.py" gives
\* "a/b/file.py" and "b//x.py" gives "/x.py".
C9_StripsExactlySegments ==
    [][ ( /\ AtLine
          /\ diff[i].kind = "header"
          /\ StripLeadingSegments(diff[i].path, n_path_strip) # None )
        => /\ current_file' =
                PathOf(StripLeadingSegments(diff[i].path, n_path_strip))
           /\ n_path_strip = 1 =>
                /\ diff[i].path = <<"b", "/", "x", ".", "p", "y">>
                     => current_file' = <<"x", ".", "p", "y">>
                /\ diff[i].path = <<"b", "/", "a", "/", "b", "/",
                                    "f", "i", "l", "e", ".", "p", "y">>
                     => current_file' = <<"a", "/", "b", "/",
                                          "f", "i", "l", "e", ".", "p", "y">>
                /\ diff[i].path = <<"b", "/", "/", "x", ".", "p", "y">>
                     => current_file' = <<"/", "x", ".", "p", "y">>
      ]_vars

\* the header "+++ b//x.py" was processed with strip_count = 1
C9_Witness ==
    /\ ppc = "loop"
    /\ i = 2
    /\ n_path_strip = 1
    /\ diff[1].kind = "header"
    /\ diff[1].path = <<"b", "/", "/", "x", ".", "p", "y">>
    /\ current_file = <<"/", "x", ".", "p", "y">>

\* ---------------------------------------------------------------- C10
\* C10: a diff line that is neither a new-file header nor a hunk header
\* (added or removed content, old-file header, index line) changes neither
\* the current-file cursor nor the mapping.
C10_OtherLinesIgnored ==
    [][ (AtLine /\ diff[i].kind \notin {"header", "hunk"})
        => (current_file' = current_file /\ lines' = lines)
      ]_vars

\* ------------------------------------------------ the checker invocations
IsFormatterCall(c) == c.stage \in {"clang_format", "yapf"}

\* the separator of a formatter: ":" for clang-format, "-" for yapf
SeparatorOf(stage) == IF stage = "clang_format" THEN ":" ELSE "-"

\* the positions of the items of ml whose suffix is in extensions, in order
QualifyingItems(ml, extensions) ==
    SelectSeq([k \in 1..Len(ml) |-> k],
              LAMBDA k : Suffix(ml[k].fname) \in extensions)

\* the calls of one stage, in order
CallsOf(stage) == SelectSeq(calls, LAMBDA c : c.stage = stage)

\* ----------------------------------------------------------------- C2
\* C2: every range [start, end) of a file reaches the formatter as
\* "--lines=<start><separator><end - 1>", the end bound being inclusive.
C2_InclusiveEndBound ==
    \A k \in 1..Len(calls) :
        IsFormatterCall(calls[k]) =>
            LET ranges == modified_lines[calls[k].item].ranges
            IN  /\ Len(calls[k].argv) = 3 + Len(ranges)
                /\ \A r \in 1..Len(ranges) :
                      calls[k].argv[3 + r] =
                          <<"-", "-", "l", "i", "n", "e", "s", "=">>
                          \o StrOfInt(ranges[r][1])
                          \o <<SeparatorOf(calls[k].stage)>>
                          \o StrOfInt(ranges[r][2] - 1)

\* ----------------------------------------------------------------- C5
\* C5 as stated: when a formatter invocation exits with a non-zero code c,
\* the exit code of the program is c.
C5_ExitCodePropagated ==
    \A k \in 1..Len(calls) :
        (pc = "exit" /\ IsFormatterCall(calls[k]) /\ calls[k].rc # 0)
            => exit_code = calls[k].rc

\* C5 amended: when a formatter invocation exits with a non-zero code c,
\* the program ends with exit code 1, whatever c is.
C5_ExitCodeIsOne ==
    \A k \in 1..Len(calls) :
        (IsFormatterCall(calls[k]) /\ calls[k].rc # 0)
            => (pc = "exit" /\ exit_code = 1)

\* a formatter exited with code 2 and the program ended
C5_Witness ==
    /\ pc = "exit"
    /\ calls # <<>>
    /\ IsFormatterCall(calls[Len(calls)])
    /\ calls[Len(calls)].rc = 2
    /\ exit_code = 1

\* ----------------------------------------------------------------- C6
\* C6: once a formatter invocation has exited non-zero, the run is over and
\* no checker invocation follows it: the failed invocation is the last one.
C6_FailFast ==
    \A k \in 1..Len(calls) :
        (IsFormatterCall(calls[k]) /\ calls[k].rc # 0)
            => (k = Len(calls) /\ pc = "exit")

\* yapf failed on the first of two Python files with flake8 enabled as well
C6_Witness ==
    /\ pc = "exit"
    /\ Len(calls) = 1
    /\ calls[1].stage = "yapf"
    /\ calls[1].rc # 0
    /\ args.flake8 # None
    /\ Len(QualifyingItems(modified_lines, PY_EXTENSIONS)) >= 2
    /\ calls[1].item = QualifyingItems(modified_lines, PY_EXTENSIONS)[1]

\* ----------------------------------------------------------------- C7
\* C7: a non-zero exit of a flake8 invocation does not end the run: once
\* flake8 has been started, the program ends only after flake8 has been
\* invoked on every file of the FileChangeSet with a Python suffix, in
\* order, and then with exit code 0.
C7_LinterNeverAborts ==
    LET fcalls == CallsOf("flake8")
        qual   == QualifyingItems(modified_lines, PY_EXTENSIONS)
    IN  fcalls # <<>> =>
            /\ exit_code = 0
            /\ pc \in {"flake8", "exit"}
            /\ pc = "exit" =>
                 /\ Len(fcalls) = Len(qual)
                 /\ \A k \in 1..Len(qual) :
                       fcalls[k].argv = <<args.flake8, modified_lines[qual[k]].fname>>

\* flake8 reported on the first of two files and the run ended after both
C7_Witness ==
    /\ pc = "exit"
    /\ exit_code = 0
    /\ Len(CallsOf("flake8")) >= 2
    /\ CallsOf("flake8")[1].rc # 0

\* ---------------------------------------------------------------- C11
\* C11: in the mapping parse_diff builds and returns, every path has at
\* least one range, and every range [start, end) has end > start.
C11_NoEmptyEntryNoEmptyRange ==
    \A k \in 1..Len(lines) :
        /\ Len(lines[k].ranges) >= 1
        /\ \A r \in 1..Len(lines[k].ranges) :
              lines[k].ranges[r][2] > lines[k].ranges[r][1]

\* parse_diff returned after a file with a zero-count hunk only, which is
\* absent, and a file with a hunk, which is present
C11_Witness ==
    /\ ppc = "done"
    /\ Len(diff) = 3
    /\ diff[1].kind = "header"
    /\ diff[2].kind = "hunk" /\ diff[2].count = 0
    /\ diff[3].kind = "hunk" /\ diff[3].count >= 1
    /\ Len(lines) = 1
    /\ Len(lines[1].ranges) = 1

\* ---------------------------------------------------------------- C12
\* the extensions a checker applies to
ExtensionsOf(stage) ==
    IF stage = "clang_format" THEN CPP_EXTENSIONS ELSE PY_EXTENSIONS

\* does the text s end with the text suf
EndsWith(s, suf) ==
    Len(s) >= Len(suf) /\ SubSeq(s, Len(s) - Len(suf) + 1, Len(s)) = suf

\* C12: every checker invocation is for a file that is a key of the
\* FileChangeSet, has at least one non-empty range recorded (so neither an
\* unchanged file nor one with pure deletions only) and ends with one of
\* the extensions of that checker.
C12_OnlyChangedFilesOfExtension ==
    \A k \in 1..Len(calls) :
        LET file == calls[k].argv[2]
        IN  /\ file \in KeysOf(modified_lines)
            /\ \E r \in 1..Len(RangesOf(modified_lines, file)) :
                  RangesOf(modified_lines, file)[r][2]
                      > RangesOf(modified_lines, file)[r][1]
            /\ \E e \in ExtensionsOf(calls[k].stage) : EndsWith(file, e)

\* all three checkers ran to the end on a FileChangeSet with a C++ file and
\* a Python file: one invocation of clang-format, of yapf and of flake8
C12_Witness ==
    /\ pc = "exit"
    /\ exit_code = 0
    /\ Len(modified_lines) = 2
    /\ \E k \in 1..2 : EndsWith(modified_lines[k].fname, <<".", "c", "c">>)
    /\ \E k \in 1..2 : EndsWith(modified_lines[k].fname, <<".", "p", "y">>)
    /\ Len(calls) = 3
    /\ calls[1].stage = "clang_format"
    /\ calls[2].stage = "yapf"
    /\ calls[3].stage = "flake8"

\* ---------------------------------------------------------------- C13
\* the command a formatter stage runs, None when the checker is not enabled
CmdOf(stage) == IF stage = "clang_format" THEN args.clang_format ELSE args.yapf

\* the formatter stage is over and none of its invocations failed
StageCompleted(stage) ==
    /\ \A k \in 1..Len(calls) : calls[k].stage = stage => calls[k].rc = 0
    /\ \/ pc = "flake8"
       \/ pc = "exit" /\ exit_code = 0
       \/ pc = "yapf" /\ stage = "clang_format"
       \/ CallsOf("yapf") # <<>> /\ stage = "clang_format"

\* argv is: cmd, file, the in-place flag, and one --lines argument per range
\* of the item, in recorded order (each begins with the start of its range)
OneCallForItem(argv, stage, item) ==
    /\ Len(argv) = 3 + Len(item.ranges)
    /\ argv[1] = CmdOf(stage)
    /\ argv[2] = item.fname
    /\ argv[3] = <<"-", "i">>
    /\ \A r \in 1..Len(item.ranges) :
          StartsWith(argv[3 + r],
              <<"-", "-", "l", "i", "n", "e", "s", "=">>
              \o StrOfInt(item.ranges[r][1])
              \o <<SeparatorOf(stage)>>)

\* C13: the invocations of a formatter are, in order, one per qualifying
\* file, each with the in-place flag and one --lines argument per range of
\* the file in recorded order; when the stage is over and no invocation
\* failed, every qualifying file has had exactly one invocation.
C13_OneInvocationPerFile ==
    \A stage \in {"clang_format", "yapf"} :
        LET cs   == CallsOf(stage)
            qual == QualifyingItems(modified_lines, ExtensionsOf(stage))
        IN  /\ Len(cs) <= Len(qual)
            /\ \A k \in 1..Len(cs) :
                  OneCallForItem(cs[k].argv, stage, modified_lines[qual[k]])
            /\ (StageCompleted(stage) /\ CmdOf(stage) # None)
                  => Len(cs) = Len(qual)

\* yapf ran once, successfully, on the one Python file, which has two
\* ranges: one invocation with two --lines arguments
C13_Witness ==
    /\ pc = "flake8"
    /\ Len(modified_lines) = 1
    /\ Len(modified_lines[1].ranges) = 2
    /\ Len(CallsOf("yapf")) = 1
    /\ CallsOf("yapf")[1].rc = 0
    /\ Len(CallsOf("yapf")[1].argv) = 5

\* ---------------------------------------------------------------- C14
\* C14: a hunk header whose new-side count is written as 0 records no range
\* and leaves the mapping and the current-file cursor as they are.
C14_ZeroCountHunkSkipped ==
    [][ (AtLine /\ diff[i].kind = "hunk" /\ diff[i].count = 0)
        => (lines' = lines /\ current_file' = current_file)
      ]_vars

\* after a header, the hunk +7,0 recorded nothing and the hunk +5 that came
\* next was recorded for the same file
C14_Witness ==
    /\ i = 4
    /\ diff[1].kind = "header"
    /\ diff[2].kind = "hunk" /\ diff[2].start = 7 /\ diff[2].count = 0
    /\ diff[3].kind = "hunk" /\ diff[3].start = 5
    /\ current_file # None
    /\ lines = << [fname |-> current_file, ranges |-> << <<5, 6>> >>] >>

\* ---------------------------------------------------------------- C15
\* does filename_regex recognise the text: "+++ " and then at least
\* n_path_strip separators
Recognizable(text) ==
    /\ StartsWith(text, <<"+", "+", "+", " ">>)
    /\ CountSlashes(Drop(text, 5)) >= n_path_strip

\* C15: as long as no line scanned so far is a recognizable file header,
\* the cursor is unset and the mapping is empty, whatever hunk headers were
\* scanned; so a diff without one returns the empty mapping.
C15_NothingBeforeFirstHeader ==
    (\A j \in 1..(i - 1) : ~Recognizable(diff[j].text))
        => (current_file = None /\ lines = <<>>)

\* parse_diff returned the empty mapping for a diff whose header has too
\* few segments to be recognized and whose hunk has added lines
C15_Witness ==
    /\ ppc = "done"
    /\ lines = <<>>
    /\ \A j \in 1..Len(diff) : ~Recognizable(diff[j].text)
    /\ \E j \in 1..Len(diff) : diff[j].kind = "header"
    /\ \E j \in 1..Len(diff) : diff[j].kind = "hunk" /\ diff[j].count >= 1

\* ---------------------------------------------------------------- C16
\* for each of the lines 1..m the path it is attributed to: that of the
\* last line up to it that filename_regex matches, None when there is none
RECURSIVE Attributions(_)
Attributions(m) ==
    IF m = 0 THEN <<>>
    ELSE LET prev == Attributions(m - 1)
             fm   == FilenameMatch(diff[m].text, n_path_strip)
         IN  Append(prev, IF fm # None THEN PathOf(fm)
                          ELSE IF m = 1 THEN None ELSE prev[m - 1])

\* the ranges of the non-empty hunks among the lines attributed by attr
\* that are attributed to key, in their order of appearance
HunkRangesOf(key, attr) ==
    LET hunks == SelectSeq([j \in 1..Len(attr) |-> j],
                     LAMBDA j : /\ diff[j].kind = "hunk"
                                /\ diff[j].count >= 1
                                /\ attr[j] = key)
    IN  [k \in 1..Len(hunks) |->
            <<diff[hunks[k]].start, diff[hunks[k]].start + diff[hunks[k]].count>>]

\* C16: at every point of the scan the ranges recorded for a path are
\* exactly the ranges of the non-empty hunks attributed to it so far, in
\* order of appearance, with nothing merged, reordered or dropped, and the
\* keys are exactly the paths that have such a hunk.
C16_RangesInOrderOfAppearance ==
    LET attr == Attributions(i - 1)
    IN  \A key \in KeysOf(lines) \cup ({ attr[j] : j \in 1..Len(attr) } \ {None}) :
            /\ RangesOf(lines, key) = HunkRangesOf(key, attr)
            /\ key \in KeysOf(lines) <=> HunkRangesOf(key, attr) # <<>>

\* parse_diff returned for a diff in which two file headers introduce the
\* same path, each followed by the same hunk: the range is recorded twice
C16_Witness ==
    /\ ppc = "done"
    /\ Len(diff) = 4
    /\ diff[1].kind = "header" /\ diff[3] = diff[1]
    /\ diff[2].kind = "hunk" /\ diff[2].count >= 1 /\ diff[4] = diff[2]
    /\ Len(lines) = 1
    /\ lines[1].ranges =
         << <<diff[2].start, diff[2].start + diff[2].count>>,
            <<diff[2].start, diff[2].start + diff[2].count>> >>

\* ---------------------------------------------------------------- C17
\* C17: once parse_args has returned, 'WARNING no checkers are enabled.'
\* has been printed only if no checker executable is set: neither yapf nor
\* flake8 nor clang-format.
C17_WarningOnlyWithoutCheckers ==
    (pc # "parse_args" /\ warned)
        => (args.yapf = None /\ args.flake8 = None /\ args.clang_format = None)

====
